---- MODULE Spec2Model ----
(***************************************************************************)
(* The waitlist backend of SafeTranx: the WaitlistUser table, the          *)
(* WaitlistUserSerializer, the WaitlistUserViewSet routed under /waitlist  *)
(* and the health_check view.                                              *)
(*                                                                         *)
(* Text values are sequences of one-character strings, so that the         *)
(* whitespace trimming of the serializer's character fields and the        *)
(* e-mail validator are computed and not assumed.                          *)
(*                                                                         *)
(* Two specifications are given.  Spec serves one request at a time: each  *)
(* handler runs from routing to response as one step.  ConcSpec serves     *)
(* two requests at once: every handler is cut at its database statements   *)
(* (load the row, validate against the table, write), and the statements   *)
(* of the two requests interleave in any order.                            *)
(***************************************************************************)
EXTENDS Integers, Sequences, FiniteSets, TLC

VARIABLES
    table,      \* the WaitlistUser table: primary key -> row
    nextId,     \* the next value of the table's AutoField sequence
    now,        \* the clock read by auto_now_add (it advances at every create)
    deleted,    \* Spec, history: <<primary key, email>> of every row a DELETE removed
    last,       \* Spec: the last request served and its response
    proc,       \* ConcSpec: the request each worker is serving, and where it is
    overlap     \* ConcSpec: the two workers' current/last requests ran at once

vars == <<table, nextId, now, deleted, last, proc, overlap>>

----------------------------------------------------------------------------
(* Bounds of the model *)

MaxRows == 2        \* primary keys handed out

(* Program constants *)

NameMaxLength == 100

----------------------------------------------------------------------------
(* models.py: RoleEnum and its choices() *)

RoleEnum ==
    << [name |-> "BUYER",     value |-> "buyer"],
       [name |-> "SELLER",    value |-> "seller"],
       [name |-> "RIDER",     value |-> "rider"],
       [name |-> "VALIDATOR", value |-> "validator"] >>

\* [(key.name, key.value) for key in cls]
choices == [i \in DOMAIN RoleEnum |-> <<RoleEnum[i].name, RoleEnum[i].value>>]

\* A choices list is read as (stored value, label) pairs: the values a
\* ChoiceField accepts, and hands on unchanged, are the first components.
ChoiceValues(ch) == {ch[i][1] : i \in DOMAIN ch}

\* The four role tokens of the enumeration (the members' values).
RoleTokens == {RoleEnum[i].value : i \in DOMAIN RoleEnum}

----------------------------------------------------------------------------
(* Text *)

RECURSIVE Strip(_)
\* str.strip() of the serializer's CharField (trim_whitespace)
Strip(s) ==
    IF s = <<>> THEN s
    ELSE IF Head(s) = " " THEN Strip(Tail(s))
    ELSE IF s[Len(s)] = " " THEN Strip(SubSeq(s, 1, Len(s) - 1))
    ELSE s

\* EmailValidator: one "@", a non-empty user part, and a domain of
\* non-empty labels joined by dots whose last label has two characters or
\* more; no white space.
IsValidEmail(s) ==
    LET ats  == {i \in DOMAIN s : s[i] = "@"}
        dots == {i \in DOMAIN s : s[i] = "."}
    IN  /\ Cardinality(ats) = 1
        /\ \A i \in DOMAIN s : s[i] # " "
        /\ LET k == CHOOSE i \in ats : TRUE
               domainDots == {i \in dots : i > k}
           IN  /\ k > 1
               /\ domainDots # {}
               /\ \A i \in domainDots : i > k + 1 /\ i + 1 \notin domainDots
               /\ \A i \in domainDots : i <= Len(s) - 2
               /\ 1 \notin dots /\ k - 1 \notin dots

----------------------------------------------------------------------------
(* serializers.py: WaitlistUserSerializer *)

\* Meta.fields
SerializerFields == {"full_name", "email", "role"}

\* EmailTaken without the exclusion of the instance being updated.
EmailTakenAnyRow(tbl, email, self) ==
    \E k \in DOMAIN tbl : tbl[k].email = email

\* unique=True as seen by the serializer's UniqueValidator and by the
\* table's unique index: another row (pk # self) holds the e-mail.
EmailTaken(tbl, email, self) ==
    \E k \in DOMAIN tbl : k # self /\ tbl[k].email = email

NameErrors(v) ==
    LET s == Strip(v)
    IN  IF s = <<>> THEN {<<"full_name", "blank">>}
        ELSE IF Len(s) > NameMaxLength THEN {<<"full_name", "max_length">>}
        ELSE {}

\* EmailErrors without the UniqueValidator.
EmailErrorsNoUnique(v, tbl, self) ==
    LET s == Strip(v)
    IN  IF s = <<>> THEN {<<"email", "blank">>}
        ELSE IF IsValidEmail(s) THEN {} ELSE {<<"email", "invalid">>}

EmailErrors(v, tbl, self) ==
    LET s == Strip(v)
    IN  IF s = <<>> THEN {<<"email", "blank">>}
        ELSE (IF IsValidEmail(s) THEN {} ELSE {<<"email", "invalid">>})
             \cup (IF EmailTaken(tbl, s, self) THEN {<<"email", "unique">>} ELSE {})

\* role = serializers.ChoiceField(choices=RoleEnum.choices())
RoleErrors(v) ==
    IF v \in ChoiceValues(choices) THEN {} ELSE {<<"role", "invalid_choice">>}

\* The error codes under the names of the error taxonomy.
DuplicateEmail     == <<"email", "unique">>
InvalidRole        == <<"role", "invalid_choice">>
InvalidEmailFormat == <<"email", "invalid">>

\* serializer.is_valid(): every declared field that the body carries is
\* converted and validated; a declared field the body lacks is an error
\* unless the update is partial; keys that are not declared are not read.
\* self is the primary key of the instance being updated, 0 on create.
Validate(data, tbl, self, partial) ==
    LET has(f) == f \in DOMAIN data
        missing == IF partial THEN {}
                   ELSE {<<f, "required">> : f \in SerializerFields \ DOMAIN data}
        errs == missing
                \cup (IF has("full_name") THEN NameErrors(data["full_name"]) ELSE {})
                \cup (IF has("email") THEN EmailErrors(data["email"], tbl, self) ELSE {})
                \cup (IF has("role") THEN RoleErrors(data["role"]) ELSE {})
        clean == [f \in SerializerFields \cap DOMAIN data |->
                    IF f = "role" THEN data[f] ELSE Strip(data[f])]
    IN  [errors |-> errs, validated |-> clean]

\* serializer.data: the declared fields of a row, and nothing else.
Representation(row) ==
    [f \in SerializerFields |-> row[f]]

----------------------------------------------------------------------------
(* models.py: the WaitlistUser table *)

\* A row as WaitlistUser.objects.create(**validated_data) builds it:
\* joined_at is auto_now_add, read from the clock when the row is written.
NewRow(validated, t) ==
    [full_name |-> validated["full_name"],
     email     |-> validated["email"],
     role      |-> validated["role"],
     joined_at |-> t]

\* Insert into a table whose email column has no unique index.
InsertNoIndex(tbl, pk, row) ==
    [ok |-> TRUE, table |-> tbl @@ (pk :> row)]

\* INSERT under the unique index on email (unique=True): the statement
\* either adds the row or raises IntegrityError and adds nothing.
Insert(tbl, pk, row) ==
    IF EmailTaken(tbl, row.email, pk)
    THEN [ok |-> FALSE, table |-> tbl]
    ELSE [ok |-> TRUE, table |-> tbl @@ (pk :> row)]

\* SaveInstance of a model whose joined_at is auto_now: every save
\* reads the clock.
SaveInstanceAutoNow(tbl, pk, inst, t) ==
    IF EmailTaken(tbl, inst.email, pk)
    THEN [ok |-> FALSE, table |-> tbl]
    ELSE [ok |-> TRUE, table |-> (pk :> [inst EXCEPT !.joined_at = t]) @@ tbl]

\* Model.save() of a loaded instance: UPDATE of every column where the
\* primary key matches; when no row matches, INSERT of the instance under
\* its primary key (auto_now_add then reads the clock again).
SaveInstance(tbl, pk, inst, t) ==
    IF pk \in DOMAIN tbl
    THEN IF EmailTaken(tbl, inst.email, pk)
         THEN [ok |-> FALSE, table |-> tbl]
         ELSE [ok |-> TRUE, table |-> [tbl EXCEPT ![pk] = inst]]
    ELSE Insert(tbl, pk, [inst EXCEPT !.joined_at = t])

\* ModelSerializer.update(): setattr of every validated field.
Assign(inst, validated) ==
    [f \in DOMAIN inst |-> IF f \in DOMAIN validated THEN validated[f] ELSE inst[f]]

\* A DELETE that removes nothing.
RemoveNothing(tbl, pk) == tbl

\* DELETE of the row.
Remove(tbl, pk) == [k \in DOMAIN tbl \ {pk} |-> tbl[k]]

----------------------------------------------------------------------------
(* views.py: the responses of WaitlistUserViewSet *)

NoBody == <<>>

Response(status, errors, body) ==
    [status |-> status, errors |-> errors, body |-> body]

NotFound == Response(404, {}, NoBody)

\* An exception no handler catches: the generic server error.
ServerError == Response(500, {}, NoBody)

\* POST /waitlist/ once the body is validated: perform_create and the
\* 201 response.
PerformCreate(validated, tbl, nid, t) ==
    LET row == NewRow(validated, t)
        ins == Insert(tbl, nid, row)
    IN  IF ins.ok
        THEN [table |-> ins.table, pk |-> nid,
              res |-> Response(201, {}, Representation(row))]
        ELSE [table |-> tbl, pk |-> 0, res |-> ServerError]

\* POST /waitlist/
create(data, tbl, nid, t) ==
    LET v == Validate(data, tbl, 0, FALSE)
    IN  IF v.errors # {}
        THEN [table |-> tbl, pk |-> 0, res |-> Response(400, v.errors, NoBody)]
        ELSE PerformCreate(v.validated, tbl, nid, t)

\* GET /waitlist/{id}/
retrieve(id, tbl) ==
    IF id \in DOMAIN tbl
    THEN Response(200, {}, Representation(tbl[id]))
    ELSE NotFound

\* PUT/PATCH /waitlist/{id}/ once the body is validated: perform_update
\* on the instance that get_object() loaded, and the 200 response.
PerformUpdate(id, inst, validated, tbl, t) ==
    LET new == Assign(inst, validated)
        sav == SaveInstance(tbl, id, new, t)
    IN  IF sav.ok
        THEN [table |-> sav.table, res |-> Response(200, {}, Representation(new))]
        ELSE [table |-> tbl, res |-> ServerError]

\* PUT /waitlist/{id}/ (partial = FALSE), PATCH /waitlist/{id}/ (TRUE)
update(id, data, partial, tbl, t) ==
    IF id \notin DOMAIN tbl
    THEN [table |-> tbl, res |-> NotFound]
    ELSE LET v == Validate(data, tbl, id, partial)
         IN  IF v.errors # {}
             THEN [table |-> tbl, res |-> Response(400, v.errors, NoBody)]
             ELSE PerformUpdate(id, tbl[id], v.validated, tbl, t)

\* DELETE /waitlist/{id}/
destroy(id, tbl) ==
    IF id \in DOMAIN tbl
    THEN [table |-> Remove(tbl, id), res |-> Response(204, {}, NoBody)]
    ELSE [table |-> tbl, res |-> NotFound]

\* The orders in which SELECT without ORDER BY may yield the rows:
\* queryset = WaitlistUser.objects.all() names no ordering and the model
\* has no Meta.ordering, so the database is free to choose.
RowOrders(tbl) ==
    LET n == Cardinality(DOMAIN tbl)
    IN  {o \in [1..n -> DOMAIN tbl] : \A i, j \in 1..n : i # j => o[i] # o[j]}

\* GET /waitlist/ : the responses the view may give.
list(tbl) ==
    {Response(200, {}, [i \in DOMAIN o |-> Representation(tbl[o[i]])]) : o \in RowOrders(tbl)}

----------------------------------------------------------------------------
(* swissah/views.py: health_check *)

\* health_check answering 200 whatever db_status is.
HealthCheckAlways200(probe) ==
    LET db_status == IF probe = "OperationalError" THEN "unavailable" ELSE "ok"
    IN  [status |-> 200, errors |-> {}, body |-> [status |-> "ok", database |-> db_status]]

\* probe is what connections['default'].cursor() did: "ok", or
\* "OperationalError" when the database cannot be reached.
health_check(probe) ==
    LET db_status == IF probe = "OperationalError" THEN "unavailable" ELSE "ok"
    IN  Response(IF db_status = "ok" THEN 200 ELSE 500, {},
                 [status |-> "ok", database |-> db_status])

----------------------------------------------------------------------------
(* The requests the clients send *)

Alice == <<"A">>
Bob   == <<"B">>
Blank == <<" ">>
LongName == [i \in 1..(NameMaxLength + 1) |-> "n"]

EmailA == <<"a", "@", "x", ".", "i", "o">>
EmailB == <<"b", "@", "x", ".", "i", "o">>
BadEmail == <<"a", "@", "x">>

Padded(s) == <<" ">> \o s \o <<" ">>

\* A JSON body: the keys in keys, with these values.
Body(keys, n, e, r) ==
    [f \in keys |->
        CASE f = "full_name" -> n
          [] f = "email"     -> e
          [] f = "role"      -> r
          [] OTHER           -> 99]      \* "id", "joined_at"

WithIdAndJoinedAt == SerializerFields \cup {"id", "joined_at"}

\* Bodies that carry every declared field and pass validation on an
\* empty table.
GoodBodies ==
    {Body(SerializerFields, Alice, EmailA, "BUYER"),
     Body(SerializerFields, Alice, EmailB, "BUYER"),
     Body(SerializerFields, Bob, EmailA, "VALIDATOR"),
     Body(SerializerFields, Bob, EmailB, "VALIDATOR"),
     Body(SerializerFields, Padded(Alice), Padded(EmailB), "BUYER"),
     Body(WithIdAndJoinedAt, Bob, EmailB, "VALIDATOR")}

CreateBodies ==
    GoodBodies
    \cup {Body(SerializerFields, Alice, EmailA, r) : r \in RoleTokens \cup {"admin"}}
    \cup {Body(SerializerFields, Alice, BadEmail, "BUYER"),
          Body({"email", "role"}, Alice, EmailB, "BUYER")}

PutBodies ==
    {Body(SerializerFields, Bob, EmailA, "VALIDATOR"),
     Body(SerializerFields, Alice, EmailB, "BUYER"),
     Body(WithIdAndJoinedAt, Bob, EmailB, "VALIDATOR"),
     Body(SerializerFields, LongName, EmailA, "seller"),
     Body({"full_name"}, Bob, EmailA, "BUYER")}

PatchBodies ==
    {Body({"full_name"}, n, EmailA, "BUYER") : n \in {Bob, Padded(Alice), Blank}}
    \cup {Body({"email"}, Alice, e, "BUYER") : e \in {EmailA, EmailB}}
    \cup {Body({"role"}, Alice, EmailA, r) : r \in {"VALIDATOR", "seller"}}
    \cup {Body({"role", "id", "joined_at"}, Alice, EmailA, "BUYER")}

\* Primary keys a client may name: those handed out so far, and the next
\* one, which no row has had.
Ids == 1..nextId

----------------------------------------------------------------------------
(* Spec: one request at a time *)

Served(op, id, data, probe, pk, res) ==
    [op |-> op, id |-> id, data |-> data, probe |-> probe, pk |-> pk, res |-> res]

Workers == {1, 2}

Idle == [pc |-> "idle", op |-> "none", id |-> 0, data |-> <<>>, partial |-> FALSE,
         inst |-> <<>>, validated |-> <<>>,
         email |-> <<>>, fresh |-> FALSE, res |-> Response(0, {}, NoBody)]

Init ==
    /\ table = <<>>
    /\ nextId = 1
    /\ now = 0
    /\ deleted = {}
    /\ last = Served("none", 0, <<>>, "none", 0, Response(0, {}, NoBody))
    /\ proc = [w \in Workers |-> Idle]
    /\ overlap = FALSE

Create ==
    \E data \in CreateBodies :
        \E out \in {create(data, table, nextId, now)} :
            \E made \in {out.res.status = 201} :
                /\ made => nextId <= MaxRows
                /\ table' = out.table
                /\ nextId' = IF made THEN nextId + 1 ELSE nextId
                /\ now' = IF made THEN now + 1 ELSE now
                /\ last' = Served("create", 0, data, "none", out.pk, out.res)
                /\ UNCHANGED <<deleted, proc, overlap>>

List ==
    \E res \in list(table) :
        /\ last' = Served("list", 0, <<>>, "none", 0, res)
        /\ UNCHANGED <<table, nextId, now, deleted, proc, overlap>>

Retrieve ==
    \E id \in Ids :
        /\ last' = Served("get", id, <<>>, "none", 0, retrieve(id, table))
        /\ UNCHANGED <<table, nextId, now, deleted, proc, overlap>>

Put ==
    \E id \in Ids, data \in PutBodies :
        \E out \in {update(id, data, FALSE, table, now)} :
            /\ table' = out.table
            /\ last' = Served("put", id, data, "none", 0, out.res)
            /\ UNCHANGED <<nextId, now, deleted, proc, overlap>>

Patch ==
    \E id \in Ids, data \in PatchBodies :
        \E out \in {update(id, data, TRUE, table, now)} :
            /\ table' = out.table
            /\ last' = Served("patch", id, data, "none", 0, out.res)
            /\ UNCHANGED <<nextId, now, deleted, proc, overlap>>

Destroy ==
    \E id \in Ids :
        \E out \in {destroy(id, table)} :
            /\ table' = out.table
            /\ deleted' = IF out.res.status = 204
                          THEN deleted \cup {<<id, table[id].email>>}
                          ELSE deleted
            /\ last' = Served("delete", id, <<>>, "none", 0, out.res)
            /\ UNCHANGED <<nextId, now, proc, overlap>>

HealthCheck ==
    \E probe \in {"ok", "OperationalError"} :
        /\ last' = Served("health", 0, <<>>, probe, 0, health_check(probe))
        /\ UNCHANGED <<table, nextId, now, deleted, proc, overlap>>

Next ==
    \/ Create
    \/ List
    \/ Retrieve
    \/ Put
    \/ Patch
    \/ Destroy
    \/ HealthCheck

Spec == Init /\ [][Next]_vars

----------------------------------------------------------------------------
(* ConcSpec: two requests at a time *)

ConcCreateBodies ==
    {Body(SerializerFields, Alice, e, "BUYER") : e \in {EmailA, Padded(EmailA), EmailB}}
    \cup {Body(SerializerFields, Alice, EmailA, "buyer")}

ConcPatchBodies ==
    {Body({"email"}, Alice, e, "BUYER") : e \in {EmailA, EmailB}}

Other(w) == CHOOSE v \in Workers : v # w

InFlight(w) == proc[w].pc # "idle"

\* Worker w answers: of the request it keeps the operation, and for a
\* create the email and whether the email was free on arrival.
Answer(w, res) ==
    [proc EXCEPT ![w] = [Idle EXCEPT !.op = proc[w].op, !.email = proc[w].email,
                                      !.fresh = proc[w].fresh, !.res = res]]

\* POST /waitlist/ arrives.
StartCreate(w) ==
    \E data \in ConcCreateBodies :
        /\ ~InFlight(w)
        /\ proc' = [proc EXCEPT ![w] =
                      [Idle EXCEPT !.pc = "validate", !.op = "create", !.data = data,
                                   !.email = Strip(data["email"]),
                                   !.fresh = ~EmailTaken(table, Strip(data["email"]), 0)]]
        /\ overlap' = InFlight(Other(w))
        /\ UNCHANGED <<table, nextId, now, deleted, last>>

\* perform_create: the INSERT.
SaveCreate(w) ==
    /\ proc[w].pc = "save"
    /\ proc[w].op = "create"
    /\ \E out \in {PerformCreate(proc[w].validated, table, nextId, now)} :
       \E made \in {out.res.status = 201} :
           /\ made => nextId <= MaxRows
           /\ table' = out.table
           /\ nextId' = IF made THEN nextId + 1 ELSE nextId
           /\ now' = IF made THEN now + 1 ELSE now
           /\ proc' = Answer(w, out.res)
    /\ UNCHANGED <<deleted, last, overlap>>

\* PATCH /waitlist/{id}/ arrives: get_object() loads the row.
StartUpdate(w) ==
    \E id \in Ids, data \in ConcPatchBodies :
        LET req == [Idle EXCEPT !.op = "patch"]
        IN  /\ ~InFlight(w)
            /\ proc' = [proc EXCEPT ![w] =
                          IF id \in DOMAIN table
                          THEN [req EXCEPT !.pc = "validate", !.id = id, !.data = data,
                                           !.partial = TRUE, !.inst = table[id]]
                          ELSE [req EXCEPT !.res = NotFound]]
            /\ overlap' = InFlight(Other(w))
            /\ UNCHANGED <<table, nextId, now, deleted, last>>

\* serializer.is_valid() of a create (id 0) or an update, against the table
\* as it is now.
RunValidation(w) ==
    /\ proc[w].pc = "validate"
    /\ \E v \in {Validate(proc[w].data, table, proc[w].id, proc[w].partial)} :
           proc' = IF v.errors # {}
                   THEN Answer(w, Response(400, v.errors, NoBody))
                   ELSE [proc EXCEPT ![w] = [@ EXCEPT !.pc = "save", !.data = <<>>,
                                                      !.validated = v.validated]]
    /\ UNCHANGED <<table, nextId, now, deleted, last, overlap>>

\* perform_update: instance.save().
SaveUpdate(w) ==
    /\ proc[w].pc = "save"
    /\ proc[w].op = "patch"
    /\ \E out \in {PerformUpdate(proc[w].id, proc[w].inst, proc[w].validated, table, now)} :
           /\ table' = out.table
           /\ proc' = Answer(w, out.res)
    /\ UNCHANGED <<nextId, now, deleted, last, overlap>>

\* DELETE /waitlist/{id}/ arrives: get_object() loads the row.
StartDestroy(w) ==
    \E id \in Ids :
        LET req == [Idle EXCEPT !.op = "delete"]
        IN  /\ ~InFlight(w)
            /\ proc' = [proc EXCEPT ![w] =
                          IF id \in DOMAIN table
                          THEN [req EXCEPT !.pc = "delete", !.id = id]
                          ELSE [req EXCEPT !.res = NotFound]]
            /\ overlap' = InFlight(Other(w))
            /\ UNCHANGED <<table, nextId, now, deleted, last>>

\* perform_destroy: instance.delete(), whether or not the row is still there.
FinishDestroy(w) ==
    /\ proc[w].pc = "delete"
    /\ table' = Remove(table, proc[w].id)
    /\ proc' = Answer(w, Response(204, {}, NoBody))
    /\ UNCHANGED <<nextId, now, deleted, last, overlap>>

ConcNext ==
    \E w \in Workers :
        \/ StartCreate(w)
        \/ StartUpdate(w)
        \/ RunValidation(w)
        \/ SaveCreate(w)
        \/ SaveUpdate(w)
        \/ StartDestroy(w)
        \/ FinishDestroy(w)

ConcSpec == Init /\ [][ConcNext]_vars

----------------------------------------------------------------------------
(* What the specification of the waitlist says, against Spec *)

DeletedIds(d) == {x[1] : x \in d}

IsUpdate(op) == op \in {"put", "patch"}

\* The primary keys of a table, oldest row first.
InsertionOrder(tbl) ==
    CHOOSE o \in RowOrders(tbl) : \A i, j \in DOMAIN o : i < j => o[i] < o[j]

\* C3: create accepts a role exactly when it is one of the tokens buyer,
\* seller, rider, validator: with a valid name and an unused email it
\* answers 201 for these, it answers InvalidRole and stores nothing for
\* every other role, and every stored role is one of the four tokens.
C3_RoleAcceptedIffToken ==
    /\ (last.op = "create" /\ last.res.errors \subseteq {InvalidRole}) =>
          IF last.data["role"] \in RoleTokens
          THEN last.res.status = 201 /\ last.pk \in DOMAIN table
          ELSE last.res.status = 400 /\ last.res.errors = {InvalidRole} /\ last.pk = 0
    /\ \A k \in DOMAIN table : table[k].role \in RoleTokens

\* C4: after a successful create, get(id) of the created registrant returns
\* the full_name, email and role that were submitted, and both the create
\* response and the get response carry id and joined_at beside them.
C4_CreateThenGetRoundTrip ==
    (last.op = "create" /\ last.res.status = 201) =>
        LET got == retrieve(last.pk, table)
        IN  /\ got.status = 200
            /\ \A f \in SerializerFields :
                  got.body[f] = last.data[f] /\ last.res.body[f] = last.data[f]
            /\ {"id", "joined_at"} \subseteq DOMAIN last.res.body
            /\ {"id", "joined_at"} \subseteq DOMAIN got.body

\* C5: a create whose email is the email of a stored registrant fails with
\* DuplicateEmail (400) whatever full_name and role it carries, and leaves
\* the table as it was.
C5_DuplicateCreateRejected ==
    [][ (/\ last'.op = "create"
         /\ "email" \in DOMAIN last'.data
         /\ EmailTaken(table, Strip(last'.data["email"]), 0))
        => /\ last'.res.status = 400
           /\ DuplicateEmail \in last'.res.errors
           /\ table' = table
           /\ nextId' = nextId ]_vars

C5_Witness ==
    /\ last.op = "create"
    /\ DuplicateEmail \in last.res.errors
    /\ \E k \in DOMAIN table :
          /\ table[k].email = Strip(last.data["email"])
          /\ table[k].full_name # Strip(last.data["full_name"])
          /\ table[k].role # last.data["role"]

\* C6: list() returns the stored registrants, one entry each, the entry
\* created earlier before the entry created later.
C6_ListInInsertionOrder ==
    last.op = "list" =>
        LET o == InsertionOrder(table)
        IN  last.res.body = [i \in DOMAIN o |-> Representation(table[o[i]])]

\* C7: once delete(id) has answered 204, get, update and delete of id answer
\* 404 and change nothing, and no listing shows a row that is not stored;
\* delete of an id that is not stored answers 404 and changes nothing; and
\* right after the delete no stored row holds the deleted row's email, so
\* that a create may use it.
C7_DeletionPermanent ==
    [][ /\ \A d \in deleted' : d[1] \notin DOMAIN table'
        /\ last'.op = "list"
           => /\ Len(last'.res.body) = Cardinality(DOMAIN table)
              /\ \A i \in DOMAIN last'.res.body :
                    \E k \in DOMAIN table : last'.res.body[i] = Representation(table[k])
              /\ table' = table
        /\ (last'.op \in {"get", "put", "patch", "delete"}
              /\ last'.id \in DeletedIds(deleted))
           => (last'.res = NotFound /\ table' = table /\ deleted' = deleted)
        /\ (last'.op = "delete" /\ last'.id \notin DOMAIN table)
           => (last'.res = NotFound /\ table' = table /\ deleted' = deleted)
        /\ (last'.op = "delete" /\ last'.res.status = 204)
           => /\ ~EmailTaken(table', table[last'.id].email, 0)
              /\ DuplicateEmail \notin
                    Validate(Body(SerializerFields, Alice, table[last'.id].email, "BUYER"),
                             table', 0, FALSE).errors ]_vars

\* A registrant was deleted, its id is asked for again and is not found,
\* and its email is held by a registrant created after the delete.
C7_Witness ==
    /\ last.op = "get"
    /\ last.res = NotFound
    /\ \E d \in deleted :
          /\ d[1] = last.id
          /\ \E k \in DOMAIN table : k > d[1] /\ table[k].email = d[2]

\* C8: joined_at is the clock's reading when the row is written, never a
\* value of the request body; an update, successful or not, whatever its
\* body carries, leaves every row's primary key and joined_at as they were,
\* touches no other row, and changes only declared fields that it supplies.
C8_IdAndJoinedAtFixed ==
    [][ /\ (last'.op = "create" /\ last'.res.status = 201)
           => /\ last'.pk = nextId
              /\ DOMAIN table' = DOMAIN table \cup {nextId}
              /\ table'[nextId].joined_at = now
        /\ \A k \in DOMAIN table \cap DOMAIN table' :
              table'[k].joined_at = table[k].joined_at
        /\ IsUpdate(last'.op)
           => /\ DOMAIN table' = DOMAIN table
              /\ \A k \in DOMAIN table :
                    /\ k # last'.id => table'[k] = table[k]
                    /\ \A f \in SerializerFields \ DOMAIN last'.data :
                          table'[k][f] = table[k][f]
              /\ last'.res.status # 200 => table' = table ]_vars

\* A PATCH that carries id and joined_at beside a new role succeeded: the
\* role is the new one, joined_at is neither the body's nor the clock's.
C8_Witness ==
    /\ last.op = "patch"
    /\ last.res.status = 200
    /\ {"id", "joined_at", "role"} \subseteq DOMAIN last.data
    /\ table[last.id].role = last.data["role"]
    /\ table[last.id].joined_at # last.data["joined_at"]
    /\ table[last.id].joined_at # now
    /\ last.id # last.data["id"]

\* The body's fields other than email pass validation.
OtherFieldsValid(data, partial) ==
    /\ partial \/ SerializerFields \subseteq DOMAIN data
    /\ "full_name" \in DOMAIN data => NameErrors(data["full_name"]) = {}
    /\ "role" \in DOMAIN data => RoleErrors(data["role"]) = {}

C10_HealthCheck ==
    [][ last'.op = "health" =>
          /\ last'.res.body.status = "ok"
          /\ last'.probe = "ok"
             => (last'.res.status = 200 /\ last'.res.body.database = "ok")
          /\ last'.probe # "ok"
             => (last'.res.status = 500 /\ last'.res.body.database = "unavailable")
          /\ last'.res.status = 200 <=> last'.res.body.database = "ok"
          /\ table' = table /\ nextId' = nextId ]_vars

\* The probe failed while registrants are stored.
C10_Witness ==
    /\ last.op = "health"
    /\ last.probe = "OperationalError"
    /\ last.res.status = 500
    /\ last.res.body.database = "unavailable"
    /\ DOMAIN table # {}

----------------------------------------------------------------------------
(* What the specification of the waitlist says, against ConcSpec *)

\* C1: whatever creates, updates and deletes have run, and however their
\* statements interleaved, no two stored registrants have the same email.
C1_EmailsUnique ==
    \A j, k \in DOMAIN table : j # k => table[j].email # table[k].email

\* Two requests raced for one email: one of them wrote the row, the other
\* was refused by the unique index.
C1_Witness ==
    /\ overlap
    /\ \E w \in Workers :
          /\ ~InFlight(w) /\ ~InFlight(Other(w))
          /\ proc[w].res = ServerError
          /\ proc[Other(w)].res.status \in {200, 201}
          /\ \E k \in DOMAIN table : table[k].email = proc[w].email

\* Worker w has answered a create whose name, role and email format are valid
\* and whose email no row held when the request arrived.
AnsweredFreshCreate(w) ==
    /\ ~InFlight(w)
    /\ proc[w].op = "create"
    /\ proc[w].fresh
    /\ proc[w].res.errors \subseteq {DuplicateEmail}

\* C2: of two creates with one email that are served at the same time, one
\* answers 201 and the other answers 400 with DuplicateEmail.
C2_ConcurrentDuplicateCreate ==
    \A w \in Workers :
        LET v == Other(w)
        IN  (/\ overlap
             /\ AnsweredFreshCreate(w) /\ AnsweredFreshCreate(v)
             /\ proc[w].email = proc[v].email)
            => \/ /\ proc[w].res.status = 201
                  /\ proc[v].res.status = 400
                  /\ DuplicateEmail \in proc[v].res.errors
               \/ /\ proc[v].res.status = 201
                  /\ proc[w].res.status = 400
                  /\ DuplicateEmail \in proc[w].res.errors

====
